---------------------------- MODULE Spec2Model ----------------------------
(***************************************************************************)
(* Model of src/smtp_relay/app.py: the aiosmtpd handler StoreHandler that  *)
(* stores each received message under MAIL_DIR and then, recipient by      *)
(* recipient, tries an outbound relay and falls back to the MX hosts of    *)
(* the recipient's domain.                                                 *)
(*                                                                         *)
(* handle_DATA is a coroutine without any await, run by the one event loop *)
(* of the aiosmtpd Controller: once it has started for a session it runs   *)
(* to its return before the loop serves another session.  Every call that  *)
(* leaves the process (file system, DNS, SMTP) is one step of the model;   *)
(* the computation between two such calls belongs to the step before it.   *)
(***************************************************************************)
EXTENDS Integers, Sequences, FiniteSets, TLC

\* Number of SMTP sessions that reach the end of their DATA phase.  The
\* sessions are numbered in the order in which the event loop calls
\* handle_DATA for them.
MaxSessions == 2

Sessions == 1..MaxSessions

-----------------------------------------------------------------------------
(* Inputs *)

\* Message contents (envelope.content); two different byte strings.
Contents == {"msgA", "msgB"}

\* What a file holds between open(path, "wb") and a completed write: a
\* strict prefix of the content (possibly empty).
Truncated == "truncated"

\* Recipient lists (envelope.rcpt_tos).  "nodomain" has no "@".
RcptLists ==
    { <<"a@one.test">>,
      <<"a@one.test", "b@two.test">>,
      <<"nodomain", "a@one.test">> }

\* "@" in rcpt
HasAt(rcpt) == rcpt \in {"a@one.test", "b@two.test"}

\* Addresses and header values are sequences of characters.
\* "relay@x.com"
RelayUser == <<"r", "e", "l", "a", "y", "@", "x", ".", "c", "o", "m">>

\* The environment read by _deliver_to_recipient: SMTP_RELAY_SERVER set or
\* not, SMTP_RELAY_PORT ("" when unset), SMTP_RELAY_USERNAME (empty when
\* unset), SMTP_RELAY_PASSWORD set or not, SMTP_RELAY_STARTTLS.
RelayConfigs ==
    { [host |-> FALSE, port |-> "",     user |-> << >>,     pass |-> FALSE, starttls |-> TRUE],
      [host |-> TRUE,  port |-> "",     user |-> RelayUser, pass |-> TRUE,  starttls |-> TRUE],
      [host |-> TRUE,  port |-> "2525", user |-> RelayUser, pass |-> FALSE, starttls |-> FALSE],
      [host |-> TRUE,  port |-> "smtp", user |-> << >>,     pass |-> FALSE, starttls |-> TRUE] }

\* int(os.getenv("SMTP_RELAY_PORT")) raises ValueError on a non-numeric text
PortParses(p) == p \in {"", "2525"}

\* MX answers as the resolver returns them: sequences of (preference,
\* exchange) with the exchange as an absolute name (trailing dot).
MXAnswers ==
    { << >>,
      << <<10, "mx1.example.">> >>,
      << <<10, "mx1.example.">>, <<5, "mx2.example.">> >>,
      << <<5, "mx2.example.">>, <<5, "mx1.example.">> >> }

\* str(r.exchange).rstrip(".")
rstrip_dot(name) ==
    CASE name = "mx1.example." -> "mx1.example"
      [] name = "mx2.example." -> "mx2.example"
      [] name = "mx3.example." -> "mx3.example"
      [] OTHER -> name

\* Python's order on the host strings of the model
HostRank(host) ==
    CASE host = "mx1.example" -> 1
      [] host = "mx2.example" -> 2
      [] host = "mx3.example" -> 3
      [] OTHER -> 0

\* (variant) sorted(..., key=preference): the hosts are not compared
PreferenceLess(a, b) == a[1] < b[1]

\* Python's order on (preference, host) tuples
TupleLess(a, b) ==
    \/ a[1] < b[1]
    \/ a[1] = b[1] /\ HostRank(a[2]) < HostRank(b[2])

\* sorted() is stable: an element goes before the later elements that are
\* not smaller than it
RECURSIVE InsertSorted(_, _)
InsertSorted(x, seq) ==
    IF seq = << >> THEN <<x>>
    ELSE IF ~TupleLess(Head(seq), x) THEN <<x>> \o seq
    ELSE <<Head(seq)>> \o InsertSorted(x, Tail(seq))

RECURSIVE sorted(_)
sorted(seq) ==
    IF seq = << >> THEN << >>
    ELSE InsertSorted(Head(seq), sorted(Tail(seq)))

\* StoreHandler._get_mx_hosts, given the resolver's answer
get_mx_hosts(answers) ==
    LET mx == sorted([n \in 1..Len(answers) |->
                         <<answers[n][1], rstrip_dot(answers[n][2])>>])
    IN  [n \in 1..Len(mx) |-> mx[n][2]]

-----------------------------------------------------------------------------
(* envelope_from *)

Whitespace == {" ", "\t", "\n", "\r"}

\* the characters of .strip("<>\n\r")
StripChars == {"<", ">", "\n", "\r"}

\* "postmaster@localhost"
Postmaster ==
    <<"p", "o", "s", "t", "m", "a", "s", "t", "e", "r", "@",
      "l", "o", "c", "a", "l", "h", "o", "s", "t">>

\* what msg.get("From") gives: st = "ok" with the header value v, "none"
\* when the message has no From header, "raise" when message_from_bytes
\* raises
NoFrom == [st |-> "none", v |-> << >>]
ParseError == [st |-> "raise", v |-> << >>]
From(v) == [st |-> "ok", v |-> v]

\* email.message_from_bytes(content).get("From") for the contents of the
\* model: msgA carries "From: A <a@b>", msgB carries no From header
msg_get_From(content) ==
    IF content = "msgA" THEN From(<<"A", " ", "<", "a", "@", "b", ">">>) ELSE NoFrom

\* "@" in frm
Contains(str, c) == \E n \in DOMAIN str : str[n] = c

\* str.split(): the maximal runs of non-whitespace characters; cur is the
\* run being read and out the runs read so far
RECURSIVE split_from(_, _, _)
split_from(str, cur, out) ==
    IF str = << >>
    THEN IF cur = << >> THEN out ELSE Append(out, cur)
    ELSE IF Head(str) \in Whitespace
    THEN split_from(Tail(str), << >>, IF cur = << >> THEN out ELSE Append(out, cur))
    ELSE split_from(Tail(str), Append(cur, Head(str)), out)

split(str) == split_from(str, << >>, << >>)

RECURSIVE lstrip(_, _)
lstrip(str, chars) ==
    IF str # << >> /\ Head(str) \in chars THEN lstrip(Tail(str), chars) ELSE str

RECURSIVE rstrip(_, _)
rstrip(str, chars) ==
    IF str # << >> /\ str[Len(str)] \in chars
    THEN rstrip(SubSeq(str, 1, Len(str) - 1), chars)
    ELSE str

strip(str, chars) == rstrip(lstrip(str, chars), chars)

\* frm.split()[-1].strip("<>\n\r")
\* (variant) frm.split()[-1], the strip left out
LastTokenUnstripped(frm) ==
    LET tokens == split(frm) IN tokens[Len(tokens)]

LastTokenStripped(frm) ==
    LET tokens == split(frm) IN strip(tokens[Len(tokens)], StripChars)

\* (variant) the relay username is not looked at
envelope_from_header_only(relay_user, frm) ==
    IF frm.st = "ok" /\ frm.v # << >>
    THEN IF Contains(frm.v, "@") THEN LastTokenStripped(frm.v) ELSE frm.v
    ELSE Postmaster

\* envelope_from(content), with relay_user = os.getenv("SMTP_RELAY_USERNAME")
\* and frm the From header of the content
envelope_from(relay_user, frm) ==
    IF relay_user # << >> THEN relay_user
    ELSE IF frm.st = "ok" /\ frm.v # << >>
    THEN IF Contains(frm.v, "@") THEN LastTokenStripped(frm.v) ELSE frm.v
    ELSE Postmaster

-----------------------------------------------------------------------------
(* State *)

VARIABLES
    cfg,        \* the relay settings of the process environment
    files,      \* MAIL_DIR: i |-> what msg-<i>.eml holds, for the files that exist
    sess,       \* per session: position in and locals of handle_DATA
    hist,       \* per session: what has been observed of it (history)
    accepted,   \* the (id, content) of the envelopes answered 250, in order
    call        \* the last call of a function checked by itself, with its result

vars == <<cfg, files, sess, hist, accepted, call>>

NoCall == [fn |-> "none"]

NoExc == [kind |-> "None", at |-> 0, op |-> ""]
Exc(kind, at, op) == [kind |-> kind, at |-> at, op |-> op]

Waiting ==
    [pc |-> "wait", content |-> "", rcpts |-> << >>, i |-> 0, k |-> 0,
     mx_hosts |-> << >>, h |-> 0, last_exc |-> NoExc, retval |-> ""]

Finished == [Waiting EXCEPT !.pc = "done"]

\* hist[s].stored: "none" | "ok" | "failed" (open or write raised) | "nodir"
\* hist[s].reply : "none" | the string handle_DATA returned | "unhandled"
\* hist[s].ev    : the outbound calls made for the recipient being processed
\* hist[s].cnt   : per recipient entry, the calls of _deliver_to_recipient
\* hist[s].res   : result of the recipient being processed, NoExc in progress
\* hist[s].rcpt  : the recipient being processed
\* hist[s].answers : what the resolver answered for it
NoHist ==
    [stored |-> "none", reply |-> "none", ev |-> << >>, cnt |-> << >>, res |-> NoExc,
     rcpt |-> "", answers |-> << >>]

Ev(t, op, ok) == [t |-> t, op |-> op, ok |-> ok]

Init ==
    /\ cfg \in RelayConfigs
    /\ files = << >>
    /\ sess = [s \in Sessions |-> Waiting]
    /\ hist = [s \in Sessions |-> NoHist]
    /\ accepted = << >>
    /\ call = NoCall


-----------------------------------------------------------------------------
(* handle_DATA: the store *)

\* (variant) handle_DATA run by a thread per session: sessions overlap
CanBeginThreaded(s) == TRUE

\* The event loop runs one handle_DATA at a time: the coroutine has no
\* await, so a session starts only when no other session is inside it.
CanBegin(s) == \A t \in Sessions : sess[t].pc \in {"wait", "done"}

\* (variant) the probe never sees an existing file
PathExistsNever(i) == FALSE

\* os.path.exists(msg-<i>.eml)
PathExists(i) == i \in DOMAIN files

\* (variant) i += 2
NextProbeSkip(i) == i + 2

\* i += 1
NextProbe(i) == i + 1

\* (variant) the delivery loop placed before the store
AfterMakedirsDeliverFirst == "loop"

\* where handle_DATA continues after os.makedirs
AfterMakedirs == "probe"

\* (variant) the except branch logs and does not return
OnStoreFailContinue(r) == [r EXCEPT !.pc = "loop"]

\* the except branch of the write: return "451 ..."
OnStoreFail(r) == [r EXCEPT !.pc = "return", !.retval = "451 Could not store message"]

\* Sessions that wait for their handle_DATA do not differ: the next call is
\* for the waiting session with the lowest number.
NextInLine(s) == \A t \in Sessions : t < s => sess[t].pc # "wait"

\* handle_DATA is entered with the session's envelope; os.makedirs(MAIL_DIR,
\* exist_ok=True) stands outside the try: when it raises, the exception
\* leaves handle_DATA.
MakeDirs(s) ==
    /\ sess[s].pc = "wait"
    /\ NextInLine(s)
    /\ CanBegin(s)
    /\ \E content \in Contents, rcpts \in RcptLists, ok \in BOOLEAN :
         IF ok
         THEN /\ sess' = [sess EXCEPT ![s] =
                    [Waiting EXCEPT !.pc = AfterMakedirs, !.content = content,
                                    !.rcpts = rcpts, !.i = 1, !.k = 1]]
              /\ hist' = [hist EXCEPT ![s].cnt = [n \in 1..Len(rcpts) |-> 0]]
         ELSE /\ sess' = [sess EXCEPT ![s] = Finished]
              /\ hist' = [hist EXCEPT ![s].stored = "nodir", ![s].reply = "unhandled"]
    /\ UNCHANGED <<call, cfg, files, accepted>>

\* one turn of the while True loop
Probe(s) ==
    /\ sess[s].pc = "probe"
    /\ IF PathExists(sess[s].i)
       THEN sess' = [sess EXCEPT ![s].i = NextProbe(@)]
       ELSE sess' = [sess EXCEPT ![s].pc = "open"]
    /\ UNCHANGED <<call, cfg, files, hist, accepted>>

\* open(path, "wb") creates the file, or empties the one that is there
OpenFile(s) ==
    /\ sess[s].pc = "open"
    /\ \E ok \in BOOLEAN :
         IF ok
         THEN /\ files' = (sess[s].i :> Truncated) @@ files
              /\ sess' = [sess EXCEPT ![s].pc = "write"]
              /\ hist' = hist
         ELSE /\ files' = files
              /\ sess' = [sess EXCEPT ![s] = OnStoreFail(@)]
              /\ hist' = [hist EXCEPT ![s].stored = "failed"]
    /\ UNCHANGED <<call, cfg, accepted>>

\* fh.write(envelope.content) and the close of the with block
WriteFile(s) ==
    /\ sess[s].pc = "write"
    /\ \E ok \in BOOLEAN :
         IF ok
         THEN /\ files' = (sess[s].i :> sess[s].content) @@ files
              /\ sess' = [sess EXCEPT ![s].pc = "loop"]
              /\ hist' = [hist EXCEPT ![s].stored = "ok"]
         ELSE /\ files' = (sess[s].i :> Truncated) @@ files
              /\ sess' = [sess EXCEPT ![s] = OnStoreFail(@)]
              /\ hist' = [hist EXCEPT ![s].stored = "failed"]
    /\ UNCHANGED <<call, cfg, accepted>>

\* the return of handle_DATA: the reply goes to the client and the
\* envelope and the locals are gone
Return(s) ==
    /\ sess[s].pc = "return"
    /\ hist' = [hist EXCEPT ![s].reply = sess[s].retval, ![s].ev = << >>,
                            ![s].cnt = << >>, ![s].res = NoExc,
                            ![s].rcpt = "", ![s].answers = << >>]
    /\ accepted' = IF sess[s].retval = "250 Message accepted for delivery"
                   THEN Append(accepted, [id |-> sess[s].i, content |-> sess[s].content])
                   ELSE accepted
    /\ sess' = [sess EXCEPT ![s] = Finished]
    /\ UNCHANGED <<call, cfg, files>>

-----------------------------------------------------------------------------
(* handle_DATA: the loop over the recipients, and _deliver_to_recipient *)

\* the rcpt of the running iteration
Rcpt(r) == r.rcpts[r.k]

Delivered(at) == [kind |-> "Delivered", at |-> at, op |-> ""]

\* (variant) no try/except around the call: an exception ends the loop
AfterRecipientAbort(r, raised) ==
    [r EXCEPT !.pc = "loop", !.k = IF raised THEN Len(r.rcpts) + 1 ELSE r.k + 1,
              !.mx_hosts = << >>, !.h = 0, !.last_exc = NoExc]

\* (variant) no try/except around the call: the exception leaves handle_DATA
AfterRecipientPropagate(r, raised) ==
    IF raised
    THEN [r EXCEPT !.pc = "return", !.retval = "unhandled",
                   !.mx_hosts = << >>, !.h = 0, !.last_exc = NoExc]
    ELSE [r EXCEPT !.pc = "loop", !.k = r.k + 1,
                   !.mx_hosts = << >>, !.h = 0, !.last_exc = NoExc]

\* _deliver_to_recipient has returned, or has raised into the except of
\* handle_DATA, which logs: the for loop goes on with the next recipient
AfterRecipient(r, raised) ==
    [r EXCEPT !.pc = "loop", !.k = r.k + 1,
              !.mx_hosts = << >>, !.h = 0, !.last_exc = NoExc]

\* (variant) rcpt.split("@")[-1], which never raises
FallbackAlwaysResolve(r) == [r EXCEPT !.pc = "resolve"]

\* rcpt.split("@", 1)[1] raises IndexError for an address without "@";
\* otherwise the MX hosts of the domain are resolved next
Fallback(r) ==
    IF HasAt(Rcpt(r)) THEN [r EXCEPT !.pc = "resolve"] ELSE AfterRecipient(r, TRUE)

FallbackRes(r) ==
    IF HasAt(Rcpt(r)) THEN NoExc ELSE Exc("IndexError", 0, "split")

\* (variant) the emptiness test left out
NoHostsNever(mx_hosts) == FALSE

\* if not mx_hosts
NoHosts(mx_hosts) == mx_hosts = << >>

\* raise last_exc or RuntimeError("MX delivery failed")
Raised(last_exc) ==
    IF last_exc = NoExc THEN Exc("RuntimeError", 0, "MX delivery failed") ELSE last_exc

\* for rcpt in envelope.rcpt_tos: the call of _deliver_to_recipient up to
\* its first outbound call.  The port is parsed before relay_host is looked
\* at and outside any try.
StartDelivery(s) ==
    LET r == sess[s] IN
    /\ r.pc = "loop"
    /\ r.k <= Len(r.rcpts)
    /\ IF ~PortParses(cfg.port)
       THEN /\ sess' = [sess EXCEPT ![s] = AfterRecipient(r, TRUE)]
            /\ hist' = [hist EXCEPT ![s].cnt[r.k] = @ + 1, ![s].ev = << >>,
                                    ![s].rcpt = Rcpt(r), ![s].answers = << >>,
                                    ![s].res = Exc("ValueError", 0, "int")]
       ELSE IF cfg.host
       THEN /\ sess' = [sess EXCEPT ![s].pc = "r_connect"]
            /\ hist' = [hist EXCEPT ![s].cnt[r.k] = @ + 1, ![s].ev = << >>,
                                    ![s].rcpt = Rcpt(r), ![s].answers = << >>,
                                    ![s].res = NoExc]
       ELSE /\ sess' = [sess EXCEPT ![s] = Fallback(r)]
            /\ hist' = [hist EXCEPT ![s].cnt[r.k] = @ + 1, ![s].ev = << >>,
                                    ![s].rcpt = Rcpt(r), ![s].answers = << >>,
                                    ![s].res = FallbackRes(r)]
    /\ UNCHANGED <<call, cfg, files, accepted>>

\* (variant) the return placed inside the loop
LoopExhaustedAtOnce(r) == TRUE

\* the for loop has no recipient left
LoopExhausted(r) == r.k > Len(r.rcpts)

\* the for loop is exhausted: return "250 ..."
LoopDone(s) ==
    LET r == sess[s] IN
    /\ r.pc = "loop"
    /\ LoopExhausted(r)
    /\ sess' = [sess EXCEPT ![s].pc = "return",
                            ![s].retval = "250 Message accepted for delivery"]
    /\ UNCHANGED <<call, cfg, files, hist, accepted>>

\* What one step sends to the target t.  s.sendmail carries
\* envelope_from(content) as the envelope sender.  When a call inside a
\* "with smtplib.SMTP(...) as s" block raises, leaving the block
\* (smtplib.SMTP.__exit__) still sends QUIT if the connection is up (sent);
\* smtplib.SMTP(...) itself raises before the block is entered.
CallEvents(t, op, ok, sent, content) ==
    LET e == IF op = "sendmail"
             THEN [t |-> t, op |-> op, ok |-> ok,
                   from |-> envelope_from(cfg.user, msg_get_From(content))]
             ELSE Ev(t, op, ok)
    IN  IF ~ok /\ sent /\ op \notin {"connect", "quit"}
        THEN <<e, Ev(t, "quit", TRUE)>>
        ELSE <<e>>

\* (variant) the with block of the relay without the starttls branch
RelayNextNoUpgrade(op) ==
    CASE op = "connect"  -> "r_ehlo"
      [] op = "ehlo"     -> IF cfg.user # << >> /\ cfg.pass THEN "r_login" ELSE "r_sendmail"
      [] op = "starttls" -> "r_ehlo2"
      [] op = "ehlo2"    -> IF cfg.user # << >> /\ cfg.pass THEN "r_login" ELSE "r_sendmail"
      [] op = "login"    -> "r_sendmail"
      [] op = "sendmail" -> "r_quit"

\* the order of the calls inside "with smtplib.SMTP(relay_host, port) as s"
AfterTLS == IF cfg.user # << >> /\ cfg.pass THEN "r_login" ELSE "r_sendmail"

RelayNext(op) ==
    CASE op = "connect"  -> "r_ehlo"
      [] op = "ehlo"     -> IF cfg.starttls THEN "r_starttls" ELSE AfterTLS
      [] op = "starttls" -> "r_ehlo2"
      [] op = "ehlo2"    -> AfterTLS
      [] op = "login"    -> "r_sendmail"
      [] op = "sendmail" -> "r_quit"

\* One call to the relay.  "quit" is the QUIT that leaving the with block
\* sends (smtplib.SMTP.__exit__): a reply code other than 221 raises
\* SMTPResponseException.  Any exception is caught by the except of the
\* relay block, logged, and the code falls through to the MX delivery.
RelayStep(s, op, at) ==
    LET r == sess[s] IN
    /\ r.pc = at
    /\ \E ok, sent \in BOOLEAN :
         /\ sess' = [sess EXCEPT ![s] =
                IF ok
                THEN IF op = "quit" THEN AfterRecipient(r, FALSE)
                     ELSE [r EXCEPT !.pc = RelayNext(op)]
                ELSE Fallback(r)]
         /\ hist' = [hist EXCEPT
                ![s].ev = @ \o CallEvents("relay", op, ok, sent, r.content),
                ![s].res = IF ok
                           THEN IF op = "quit" THEN Delivered(0) ELSE NoExc
                           ELSE FallbackRes(r)]
    /\ UNCHANGED <<call, cfg, files, accepted>>

RelayConnect(s)  == RelayStep(s, "connect", "r_connect")
RelayEhlo(s)     == RelayStep(s, "ehlo", "r_ehlo")
RelayStartTLS(s) == RelayStep(s, "starttls", "r_starttls")
RelayEhlo2(s)    == RelayStep(s, "ehlo2", "r_ehlo2")
RelayLogin(s)    == RelayStep(s, "login", "r_login")
RelaySendmail(s) == RelayStep(s, "sendmail", "r_sendmail")
RelayQuit(s)     == RelayStep(s, "quit", "r_quit")

\* mx_hosts = self._get_mx_hosts(domain); dns.resolver.resolve raises
\* (NXDOMAIN, NoAnswer, Timeout, ...) or answers
ResolveRaises(s) ==
    LET r == sess[s] IN
    /\ r.pc = "resolve"
    /\ sess' = [sess EXCEPT ![s] = AfterRecipient(r, TRUE)]
    /\ hist' = [hist EXCEPT ![s].ev = Append(@, Ev("dns", "resolve", FALSE)),
                            ![s].res = Exc("ResolutionError", 0, "resolve")]
    /\ UNCHANGED <<call, cfg, files, accepted>>

ResolveAnswers(s) ==
    LET r == sess[s] IN
    /\ r.pc = "resolve"
    /\ \E answers \in MXAnswers :
         LET mx_hosts == get_mx_hosts(answers) IN
         IF NoHosts(mx_hosts)
         THEN /\ sess' = [sess EXCEPT ![s] = AfterRecipient(r, TRUE)]
              /\ hist' = [hist EXCEPT
                     ![s].ev = Append(@, Ev("dns", "resolve", TRUE)),
                     ![s].res = Exc("RuntimeError", 0, "No MX hosts found")]
         ELSE IF Len(mx_hosts) = 0
         THEN \* "for host in mx_hosts" has no turn: the raise after it
              /\ sess' = [sess EXCEPT ![s] = AfterRecipient(r, TRUE)]
              /\ hist' = [hist EXCEPT
                     ![s].ev = Append(@, Ev("dns", "resolve", TRUE)),
                     ![s].res = Raised(NoExc)]
         ELSE /\ sess' = [sess EXCEPT ![s].pc = "m_connect",
                                      ![s].mx_hosts = mx_hosts, ![s].h = 1]
              /\ hist' = [hist EXCEPT
                     ![s].ev = Append(@, Ev("dns", "resolve", TRUE)),
                     ![s].answers = answers]
    /\ UNCHANGED <<call, cfg, files, accepted>>

\* (variant) if last_exc is None: last_exc = exc
KeepFirstExc(last_exc, exc) == IF last_exc = NoExc THEN exc ELSE last_exc

\* except Exception as exc: last_exc = exc
KeepExc(last_exc, exc) == exc

MxNext(op) ==
    CASE op = "connect"  -> "m_ehlo"
      [] op = "ehlo"     -> "m_sendmail"
      [] op = "sendmail" -> "m_quit"

\* One call to the MX host of the running turn of "for host in mx_hosts".
\* An exception is kept in last_exc and the loop takes the next host; after
\* the last host the loop ends and last_exc is raised.
MxStep(s, op, at) ==
    LET r == sess[s]
        exc == KeepExc(r.last_exc, Exc("SMTPException", r.h, op))
        last == r.h >= Len(r.mx_hosts)
    IN
    /\ r.pc = at
    /\ \E ok, sent \in BOOLEAN :
         /\ sess' = [sess EXCEPT ![s] =
                IF ok
                THEN IF op = "quit" THEN AfterRecipient(r, FALSE)
                     ELSE [r EXCEPT !.pc = MxNext(op)]
                ELSE IF last THEN AfterRecipient(r, TRUE)
                     ELSE [r EXCEPT !.pc = "m_connect", !.h = r.h + 1,
                                    !.last_exc = exc]]
         /\ hist' = [hist EXCEPT
                ![s].ev = @ \o CallEvents(r.mx_hosts[r.h], op, ok, sent, r.content),
                ![s].res = IF ok
                           THEN IF op = "quit" THEN Delivered(r.h) ELSE NoExc
                           ELSE IF last THEN Raised(exc) ELSE NoExc]
    /\ UNCHANGED <<call, cfg, files, accepted>>

MxConnect(s)  == MxStep(s, "connect", "m_connect")
MxEhlo(s)     == MxStep(s, "ehlo", "m_ehlo")
MxSendmail(s) == MxStep(s, "sendmail", "m_sendmail")
MxQuit(s)     == MxStep(s, "quit", "m_quit")

-----------------------------------------------------------------------------

Next ==
    \E s \in Sessions :
        \/ MakeDirs(s)
        \/ Probe(s)
        \/ OpenFile(s)
        \/ WriteFile(s)
        \/ StartDelivery(s)
        \/ LoopDone(s)
        \/ Return(s)
        \/ RelayConnect(s)
        \/ RelayEhlo(s)
        \/ RelayStartTLS(s)
        \/ RelayEhlo2(s)
        \/ RelayLogin(s)
        \/ RelaySendmail(s)
        \/ RelayQuit(s)
        \/ ResolveRaises(s)
        \/ ResolveAnswers(s)
        \/ MxConnect(s)
        \/ MxEhlo(s)
        \/ MxSendmail(s)
        \/ MxQuit(s)

Spec == Init /\ [][Next]_vars

-----------------------------------------------------------------------------
(* The functions of the module called by themselves: envelope_from,        *)
(* _get_mx_hosts and list_messages, over all inputs up to a size.  Each    *)
(* behaviour is one call: the functions keep nothing between calls.        *)

\* length of a From header value
MaxHdrLen == 4

\* number of MX records in an answer
MaxMx == 2

\* number of stored messages
MaxStored == 11

HdrChars == {"a", "@", "<", ">", " ", "\n"}

\* The values msg.get("From") can give: the parser drops the blanks after
\* the colon and the line end of the last line of the header.
FromValues ==
    { v \in UNION { [1..n -> HdrChars] : n \in 0..MaxHdrLen } :
        v # << >> => (v[1] # " " /\ v[Len(v)] # "\n") }

FromInputs == {NoFrom, ParseError} \cup { From(v) : v \in FromValues }

MxRecords == {5, 10} \X {"mx1.example.", "mx2.example.", "mx3.example."}

\* the answers of the resolver: no record twice
ResolverAnswers ==
    { a \in UNION { [1..n -> MxRecords] : n \in 0..MaxMx } :
        \A m, n \in DOMAIN a : m # n => a[m] # a[n] }

\* MAIL_DIR after n messages were stored one after another
Stores == { [i \in 1..n |-> "msgA"] : n \in 0..MaxStored }

\* the decimal digits of i, as in f"msg-{i}.eml"
RECURSIVE Digits(_)
Digits(i) == IF i < 10 THEN <<i>> ELSE Append(Digits(i \div 10), i % 10)

\* The part of the file name that differs between two files: the digits
\* and the "." after them, which Python orders before every digit (-1).
FileName(i) == Append(Digits(i), -1)

\* Python's order on strings
RECURSIVE StrLess(_, _)
StrLess(a, b) ==
    IF b = << >> THEN FALSE
    ELSE IF a = << >> THEN TRUE
    ELSE IF Head(a) # Head(b) THEN Head(a) < Head(b)
    ELSE StrLess(Tail(a), Tail(b))

\* sorted(os.listdir(MAIL_DIR)), as the identifiers of the files
RECURSIVE InsertName(_, _)
InsertName(i, seq) ==
    IF seq = << >> THEN <<i>>
    ELSE IF ~StrLess(FileName(Head(seq)), FileName(i)) THEN <<i>> \o seq
    ELSE <<Head(seq)>> \o InsertName(i, Tail(seq))

RECURSIVE SortedNames(_)
SortedNames(ids) ==
    IF ids = {} THEN << >>
    ELSE LET i == CHOOSE i \in ids : TRUE IN InsertName(i, SortedNames(ids \ {i}))

\* list_messages: the messages in the order of the listing
list_messages(dir) == SortedNames(DOMAIN dir)

InitPure ==
    /\ cfg \in RelayConfigs
    /\ files \in Stores
    /\ sess = [s \in Sessions |-> Waiting]
    /\ hist = [s \in Sessions |-> NoHist]
    /\ accepted = << >>
    /\ call = NoCall

CallEnvelopeFrom ==
    /\ call = NoCall
    /\ \E frm \in FromInputs :
          call' = [fn |-> "envelope_from", frm |-> frm,
                   out |-> envelope_from(cfg.user, frm)]
    /\ UNCHANGED <<cfg, files, sess, hist, accepted>>

CallGetMxHosts ==
    /\ call = NoCall
    /\ \E answers \in ResolverAnswers :
          call' = [fn |-> "_get_mx_hosts", answers |-> answers,
                   out |-> get_mx_hosts(answers)]
    /\ UNCHANGED <<cfg, files, sess, hist, accepted>>

CallListMessages ==
    /\ call = NoCall
    /\ call' = [fn |-> "list_messages", out |-> list_messages(files)]
    /\ UNCHANGED <<cfg, files, sess, hist, accepted>>

NextPure == CallEnvelopeFrom \/ CallGetMxHosts \/ CallListMessages

SpecPure == InitPure /\ [][NextPure]_vars

-----------------------------------------------------------------------------
(* Properties *)

Reply250 == "250 Message accepted for delivery"
Reply451 == "451 Could not store message"

\* the calls of _deliver_to_recipient made so far for the session
Calls(s) == {n \in DOMAIN hist[s].cnt : hist[s].cnt[n] > 0}

InDelivery(s) ==
    sess[s].pc \in {"r_connect", "r_ehlo", "r_starttls", "r_ehlo2", "r_login",
                    "r_sendmail", "r_quit", "resolve",
                    "m_connect", "m_ehlo", "m_sendmail", "m_quit"}

IsMx(e) == e.t \notin {"relay", "dns"}
IsMxConnect(e) == IsMx(e) /\ e.op = "connect"

RelayFailed(ev) == \E n \in DOMAIN ev : ev[n].t = "relay" /\ ~ev[n].ok

Resolutions(ev) == Cardinality({n \in DOMAIN ev : ev[n].t = "dns"})

\* the recipient's delivery sequence has ended (returned or raised)
Ended(s) == hist[s].res # NoExc /\ ~InDelivery(s)

\* the preference the resolver gave for a host
PrefOf(answers, host) ==
    LET n == CHOOSE n \in DOMAIN answers : rstrip_dot(answers[n][2]) = host
    IN  answers[n][1]

\* C1: in every session, whenever a delivery step has been made or is under
\* way, or a reply has been decided or given, the store of that session's
\* content has already ended, with success or with failure.
C1_StoreEndsBeforeDeliveryAndReply ==
    \A s \in Sessions :
        (\/ InDelivery(s)
         \/ Calls(s) # {}
         \/ hist[s].ev # << >>
         \/ sess[s].pc = "return"
         \/ hist[s].reply \in {Reply250, Reply451})
        => hist[s].stored \in {"ok", "failed"}

C1_Witness ==
    \E s \in Sessions :
        /\ hist[s].stored = "ok"
        /\ Len(hist[s].ev) >= 2
        /\ InDelivery(s)

C4_AcceptedCopyKept ==
    \A n \in DOMAIN accepted :
        /\ accepted[n].id \in DOMAIN files
        /\ files[accepted[n].id] = accepted[n].content

C4_Witness ==
    /\ Len(accepted) >= 1
    /\ \E s \in Sessions :
          /\ hist[s].stored = "failed"
          /\ sess[s].pc = "done"
          /\ \E j \in DOMAIN files : files[j] = Truncated

\* C5: two sessions whose DATA phases are both complete are stored under
\* different identifiers, and the file of each holds its own content.
C5_DistinctIdentifiers ==
    /\ \A m, n \in DOMAIN accepted : m # n => accepted[m].id # accepted[n].id
    /\ \A s, t \in Sessions :
          (s # t /\ sess[s].pc \in {"write", "loop", "return"} \cup
                                   {"r_connect", "resolve", "m_connect"}
                 /\ sess[t].pc \in {"open", "write"})
          => sess[s].i # sess[t].i
    /\ \A s \in Sessions :
          (hist[s].stored = "ok" /\ sess[s].pc # "done")
          => (sess[s].i \in DOMAIN files /\ files[sess[s].i] = sess[s].content)

C5_Witness ==
    /\ Len(accepted) = 2
    /\ accepted[1].content # accepted[2].content
    /\ \A s \in Sessions : s <= 2 => hist[s].reply = Reply250

C7_RelayFirstThenOneFallback ==
    cfg.host =>
        \A s \in Sessions :
            /\ hist[s].ev # << >> => hist[s].ev[1].t = "relay"
            /\ (Ended(s) /\ RelayFailed(hist[s].ev)) => Resolutions(hist[s].ev) = 1

\* C7 (amended): with a relay configured, no MX resolution and no MX
\* connection comes before the relay attempt has failed, and a failed relay
\* attempt is followed by one MX resolution when the recipient address
\* contains "@" and by none when it does not.
C7_RelayFirstFallbackIfDomain ==
    cfg.host =>
        \A s \in Sessions :
            LET ev == hist[s].ev IN
            /\ ev # << >> => ev[1] = Ev("relay", "connect", ev[1].ok)
            /\ \A n \in DOMAIN ev :
                  ev[n].t # "relay" =>
                      /\ n > 1
                      /\ \E m \in 1..(n - 1) : ev[m].t = "relay" /\ ~ev[m].ok
                      /\ \A m \in n..Len(ev) : ev[m].t # "relay"
            /\ Resolutions(ev) <= 1
            /\ (Ended(s) /\ RelayFailed(ev)) =>
                  Resolutions(ev) = IF HasAt(hist[s].rcpt) THEN 1 ELSE 0

C7_Witness ==
    /\ cfg.host
    /\ \E s \in Sessions :
          /\ Ended(s)
          /\ RelayFailed(hist[s].ev)
          /\ Resolutions(hist[s].ev) = 1
          /\ \E n \in DOMAIN hist[s].ev : IsMxConnect(hist[s].ev[n])

\* C8: the MX hosts are connected to in ascending preference, each at most
\* once, and after a host has accepted the message (its sendmail returned)
\* no other host is contacted.
C8_MxOrderOnceStopAtAccept ==
    \A s \in Sessions :
        LET ev == hist[s].ev
            conn == SelectSeq(ev, IsMxConnect)
        IN
        /\ \A m, n \in DOMAIN conn :
              m < n =>
                  /\ conn[m].t # conn[n].t
                  /\ PrefOf(hist[s].answers, conn[m].t)
                        <= PrefOf(hist[s].answers, conn[n].t)
        /\ \A m, n \in DOMAIN ev :
              (m < n /\ IsMx(ev[m]) /\ ev[m].op = "sendmail" /\ ev[m].ok)
              => ev[n].t = ev[m].t

\* The order and once-only parts of C8 alone.
C8_AscendingOnce ==
    \A s \in Sessions :
        LET conn == SelectSeq(hist[s].ev, IsMxConnect) IN
        \A m, n \in DOMAIN conn :
            m < n =>
                /\ conn[m].t # conn[n].t
                /\ PrefOf(hist[s].answers, conn[m].t)
                      <= PrefOf(hist[s].answers, conn[n].t)

\* C9: when the resolver raises or the resolved list is empty, the
\* recipient's delivery ends at once with that failure: the resolution is
\* the last outbound call made for the recipient and no MX host is
\* connected to.
C9_NoMxNoConnection ==
    \A s \in Sessions :
        LET ev == hist[s].ev IN
        \A n \in DOMAIN ev :
            (ev[n].t = "dns" /\ (~ev[n].ok \/ hist[s].answers = << >>)) =>
                /\ n = Len(ev)
                /\ \A m \in DOMAIN ev : ~IsMx(ev[m])
                /\ Ended(s)
                /\ hist[s].res \in { Exc("RuntimeError", 0, "No MX hosts found"),
                                     Exc("ResolutionError", 0, "resolve") }
                /\ ev[n].ok <=> hist[s].res.kind = "RuntimeError"

C9_Witness ==
    \E s \in Sessions :
        /\ hist[s].ev # << >>
        /\ hist[s].ev[Len(hist[s].ev)] = Ev("dns", "resolve", TRUE)
        /\ hist[s].res = Exc("RuntimeError", 0, "No MX hosts found")
        /\ sess[s].k <= Len(sess[s].rcpts)

\* C10: _deliver_to_recipient is called once for every entry of rcpt_tos,
\* in order, whatever the earlier entries' outcomes: never twice, and by
\* the time the 250 is returned never zero times.
C10_OneSequencePerRecipient ==
    \A s \in Sessions :
        /\ \A n \in DOMAIN hist[s].cnt : hist[s].cnt[n] <= 1
        /\ sess[s].pc \notin {"wait", "done"} /\ hist[s].stored = "ok" =>
              \A n \in DOMAIN sess[s].rcpts :
                  hist[s].cnt[n] = IF n < sess[s].k \/ (n = sess[s].k /\ InDelivery(s))
                                   THEN 1 ELSE 0
        /\ (sess[s].pc = "return" /\ sess[s].retval = Reply250) =>
              \A n \in DOMAIN sess[s].rcpts : hist[s].cnt[n] = 1

C10_Witness ==
    \E s \in Sessions :
        /\ ~cfg.host
        /\ sess[s].rcpts = <<"nodomain", "a@one.test">>
        /\ sess[s].pc = "return"
        /\ hist[s].cnt = <<1, 1>>
        /\ hist[s].res.kind = "Delivered"

\* C11: the reply depends on the outcome of the store only: once the store
\* has succeeded, the value handle_DATA returns and the reply the client
\* gets is "250 Message accepted for delivery", whatever the relay, the
\* resolution and the MX deliveries of the recipients did; a session that
\* has ended after a successful store was answered 250.
C11_ReplyFollowsStoreOnly ==
    \A s \in Sessions :
        hist[s].stored = "ok" =>
            /\ sess[s].retval \in {"", Reply250}
            /\ hist[s].reply \in {"none", Reply250}
            /\ sess[s].pc = "return" => sess[s].retval = Reply250
            /\ sess[s].pc = "done" => hist[s].reply = Reply250

\* 250 is about to be returned although the first recipient had no domain
\* and every MX host of the second one failed after the relay had failed
C11_Witness ==
    \E s \in Sessions :
        /\ hist[s].stored = "ok"
        /\ sess[s].rcpts = <<"nodomain", "a@one.test">>
        /\ sess[s].pc = "return"
        /\ sess[s].retval = Reply250
        /\ RelayFailed(hist[s].ev)
        /\ hist[s].res.kind = "SMTPException"

\* C12: while a session is inside a blocking delivery step (a relay or MX
\* call, or the MX resolution), the handle_DATA of another session whose
\* DATA phase is complete can begin, so that it can be stored and answered
\* before the blocked step finishes.
C12_OtherSessionServedWhileBlocked ==
    \A s, t \in Sessions :
        (s # t /\ InDelivery(s) /\ sess[t].pc = "wait" /\ NextInLine(t)) =>
            ENABLED MakeDirs(t)

\* the header values envelope_from is asked about on top of those the
\* message contents of the sessions carry
SomeFromInputs ==
    {NoFrom, ParseError, From(<<"a">>), From(<<"<", "a", "@", "b", ">">>)} \cup
    { msg_get_From(content) : content \in Contents }

\* C13: with a relay username configured, envelope_from gives that username
\* whatever the From header of the content is (present, absent, without an
\* address, unparseable), and every s.sendmail, to the relay and to an MX
\* host alike, carries it as the envelope sender.
C13_RelayUsernameIsSender ==
    cfg.user # << >> =>
        /\ \A frm \in SomeFromInputs : envelope_from(cfg.user, frm) = cfg.user
        /\ \A s \in Sessions : \A n \in DOMAIN hist[s].ev :
               hist[s].ev[n].op = "sendmail" => hist[s].ev[n].from = cfg.user

\* a message with a From header of its own was sent to the relay and then,
\* in the fallback, to an MX host, both times with the relay username
C13_Witness ==
    \E s \in Sessions : \E m, n \in DOMAIN hist[s].ev :
        /\ cfg.user = RelayUser
        /\ sess[s].content = "msgA"
        /\ hist[s].ev[m].op = "sendmail" /\ hist[s].ev[m].t = "relay"
        /\ hist[s].ev[n].op = "sendmail" /\ IsMx(hist[s].ev[n])
        /\ hist[s].ev[m].from = RelayUser /\ hist[s].ev[n].from = RelayUser

\* v[i..j] is the last maximal run of non-whitespace characters of v
IsLastToken(v, i, j) ==
    /\ 1 <= i /\ i <= j /\ j <= Len(v)
    /\ \A n \in i..j : v[n] \notin Whitespace
    /\ i = 1 \/ v[i - 1] \in Whitespace
    /\ \A n \in (j + 1)..Len(v) : v[n] \in Whitespace

\* out is tok without the angle brackets (and line ends) at its two ends
IsStripped(tok, out) ==
    \E a \in 1..(Len(tok) + 1), b \in 0..Len(tok) :
        /\ out = SubSeq(tok, a, b)
        /\ \A n \in 1..(a - 1) : tok[n] \in StripChars
        /\ \A n \in (b + 1)..Len(tok) : tok[n] \in StripChars
        /\ out # << >> => (out[1] \notin StripChars /\ out[Len(out)] \notin StripChars)

\* out is the last whitespace-delimited token of v, stripped
IsLastTokenStripped(v, out) ==
    \E i, j \in DOMAIN v :
        IsLastToken(v, i, j) /\ IsStripped(SubSeq(v, i, j), out)

\* a From header is there and holds "@"
HasAddress(frm) == frm.st = "ok" /\ Contains(frm.v, "@")

\* C14 as stated: without a relay username, envelope_from gives the last
\* token of the From header, stripped, when the header is present and
\* holds "@", and "postmaster@localhost" in every other case.
C14_LastTokenElseDefault ==
    (call.fn = "envelope_from" /\ cfg.user = << >>) =>
        IF HasAddress(call.frm)
        THEN IsLastTokenStripped(call.frm.v, call.out)
        ELSE call.out = Postmaster

\* C14: without a relay username, envelope_from gives the last token of the
\* From header, stripped, when the header is present and holds "@"; the
\* header value as it is when the header is present, not empty and holds
\* no "@"; and "postmaster@localhost" when there is no From header, when
\* it is empty, or when the content cannot be parsed.
C14_LastTokenElseHeaderElseDefault ==
    (call.fn = "envelope_from" /\ cfg.user = << >>) =>
        IF HasAddress(call.frm)
        THEN IsLastTokenStripped(call.frm.v, call.out)
        ELSE IF call.frm.st = "ok" /\ call.frm.v # << >>
        THEN call.out = call.frm.v
        ELSE call.out = Postmaster

\* the header "a <@>" without its last character gave "@": the token after
\* the display name, its bracket stripped
C14_Witness ==
    /\ cfg.user = << >>
    /\ call.fn = "envelope_from"
    /\ call.frm = From(<<"a", " ", "<", "@">>)
    /\ call.out = <<"@">>

\* C15 as stated: every handle_DATA that has ended has given one of the two
\* replies, whatever the store (makedirs, open, write) and the deliveries
\* did.
C15_ReplyIs250Or451 ==
    \A s \in Sessions :
        sess[s].pc = "done" => hist[s].reply \in {Reply250, Reply451}

\* p is an order of the records of answers in which the preferences ascend
IsPreferenceOrder(answers, p) ==
    /\ p \in [DOMAIN answers -> DOMAIN answers]
    /\ \A m, n \in DOMAIN answers : m # n => p[m] # p[n]
    /\ \A m, n \in DOMAIN answers : m < n => answers[p[m]][1] <= answers[p[n]][1]

\* the hosts of answers in the order p, as _get_mx_hosts names them
HostsIn(answers, p) == [n \in DOMAIN answers |-> rstrip_dot(answers[p[n]][2])]

\* C16 as stated: _get_mx_hosts gives the hosts by ascending preference,
\* the hosts of one preference in the order the resolver returned them.
C16_TiesInResolverOrder ==
    call.fn = "_get_mx_hosts" =>
        \E p \in [DOMAIN call.answers -> DOMAIN call.answers] :
            /\ IsPreferenceOrder(call.answers, p)
            /\ \A m, n \in DOMAIN p :
                   (m < n /\ call.answers[p[m]][1] = call.answers[p[n]][1]) => p[m] < p[n]
            /\ call.out = HostsIn(call.answers, p)

\* C16: _get_mx_hosts gives the hosts by ascending preference, the hosts of
\* one preference in ascending order of their names, whatever order the
\* resolver returned them in.
C16_TiesInHostNameOrder ==
    call.fn = "_get_mx_hosts" =>
        \E p \in [DOMAIN call.answers -> DOMAIN call.answers] :
            /\ IsPreferenceOrder(call.answers, p)
            /\ \A m, n \in DOMAIN p :
                   (m < n /\ call.answers[p[m]][1] = call.answers[p[n]][1]) =>
                       HostRank(rstrip_dot(call.answers[p[m]][2])) <
                           HostRank(rstrip_dot(call.answers[p[n]][2]))
            /\ call.out = HostsIn(call.answers, p)

\* the resolver returned mx2 before mx1 with the same preference, and
\* _get_mx_hosts gave mx1 before mx2
C16_Witness ==
    /\ call.fn = "_get_mx_hosts"
    /\ call.answers = << <<5, "mx2.example.">>, <<5, "mx1.example.">> >>
    /\ call.out = <<"mx1.example", "mx2.example">>

\* the calls that raised, among the calls made for the recipient
Failures(ev) == {n \in DOMAIN ev : ~ev[n].ok}

\* the last call that raised
LastFailure(ev) == CHOOSE n \in Failures(ev) : \A m \in Failures(ev) : m <= n

\* the MX hosts were resolved, and the recipient's delivery has raised
AllHostsFailed(s) ==
    /\ hist[s].answers # << >>
    /\ hist[s].res.kind \notin {"None", "Delivered"}

\* C17: when the resolved MX list is not empty and the recipient's delivery
\* fails, every host of the list was connected to, and the error raised is
\* the one of the last call that failed, made to the last host of the
\* list: not an earlier host's and not the relay's.
C17_LastHostErrorReported ==
    \A s \in Sessions :
        AllHostsFailed(s) =>
            LET hosts == get_mx_hosts(hist[s].answers)
                ev == hist[s].ev
                n == LastFailure(ev)
            IN  /\ \A h \in DOMAIN hosts :
                       \E m \in DOMAIN ev : ev[m].t = hosts[h] /\ ev[m].op = "connect"
                /\ hist[s].res = Exc("SMTPException", Len(hosts), ev[n].op)
                /\ ev[n].t = hosts[Len(hosts)]

\* the relay failed at its connect, the first of two MX hosts at its
\* sendmail, the second at its EHLO: the EHLO error is the one raised
C17_Witness ==
    \E s \in Sessions :
        /\ AllHostsFailed(s)
        /\ Len(hist[s].answers) = 2
        /\ Ev("relay", "connect", FALSE) \in {hist[s].ev[n] : n \in DOMAIN hist[s].ev}
        /\ \E n \in DOMAIN hist[s].ev :
               IsMx(hist[s].ev[n]) /\ hist[s].ev[n].op = "sendmail" /\ ~hist[s].ev[n].ok
        /\ hist[s].res = Exc("SMTPException", 2, "ehlo")

\* the calls made to the relay for the recipient, as positions in ev
RelayCalls(ev) == {n \in DOMAIN ev : ev[n].t = "relay"}

\* the place of a call in the with block of the relay
StepRank(op) ==
    CASE op = "connect"  -> 1
      [] op = "ehlo"     -> 2
      [] op = "starttls" -> 3
      [] op = "ehlo2"    -> 4
      [] op = "login"    -> 5
      [] op = "sendmail" -> 6
      [] op = "quit"     -> 7

\* the step op was made to the relay and succeeded
RelayDid(ev, op) == \E n \in RelayCalls(ev) : ev[n].op = op /\ ev[n].ok

\* The order of the relay steps, and when the upgrade and the
\* authentication are made.
RelayOrder(ev) ==
    /\ \A m, n \in RelayCalls(ev) : m < n => StepRank(ev[m].op) < StepRank(ev[n].op)
    /\ \A n \in RelayCalls(ev) :
           /\ ev[n].op # "connect" => RelayDid(ev, "connect")
           /\ ev[n].op \in {"starttls", "ehlo2"} => cfg.starttls
           /\ ev[n].op = "login" => (cfg.user # << >> /\ cfg.pass)
           /\ ev[n].op \in {"login", "sendmail"} =>
                  /\ RelayDid(ev, "ehlo")
                  /\ cfg.starttls => (RelayDid(ev, "starttls") /\ RelayDid(ev, "ehlo2"))
           /\ ev[n].op = "sendmail" =>
                  ((cfg.user # << >> /\ cfg.pass) => RelayDid(ev, "login"))

\* C18 as stated: the relay steps run in their order, the upgrade iff the
\* flag is enabled, the authentication iff username and password are
\* there, credentials and content only after a successful upgrade when the
\* flag is enabled, and after a step that failed nothing more is sent to
\* the relay.
C18_RelayOrderNothingAfterFailure ==
    \A s \in Sessions :
        LET ev == hist[s].ev IN
        /\ RelayOrder(ev)
        /\ \A m, n \in RelayCalls(ev) : m < n => ev[m].ok

\* C18: the relay steps run in their order, the upgrade iff the flag is
\* enabled, the authentication iff username and password are there,
\* credentials and content only after a successful upgrade when the flag
\* is enabled; after a step that failed, no further step of the sequence
\* is made: the only thing that can still be sent to the relay is the QUIT
\* with which the connection is closed.
C18_RelayOrderOnlyQuitAfterFailure ==
    \A s \in Sessions :
        LET ev == hist[s].ev IN
        /\ RelayOrder(ev)
        /\ \A m, n \in RelayCalls(ev) :
               (m < n /\ ~ev[m].ok) => (n = m + 1 /\ ev[n].op = "quit")

\* with STARTTLS enabled and credentials set, the login failed after the
\* upgrade, and the QUIT of the with block followed
C18_Witness ==
    \E s \in Sessions : \E n \in DOMAIN hist[s].ev :
        /\ cfg.starttls /\ cfg.user # << >> /\ cfg.pass
        /\ RelayDid(hist[s].ev, "starttls")
        /\ hist[s].ev[n] = Ev("relay", "login", FALSE)
        /\ n + 1 \in DOMAIN hist[s].ev
        /\ hist[s].ev[n + 1] = Ev("relay", "quit", TRUE)

\* the transmissions of the message that succeeded for the recipient
Transmitted(ev) == {n \in DOMAIN ev : ev[n].op = "sendmail" /\ ev[n].ok}

\* C19 as stated: for one recipient of one message at most one
\* transmission succeeds: after a transmission that succeeded, no
\* resolution is made and no further target is contacted.
C19_AtMostOneTransmission ==
    \A s \in Sessions :
        LET ev == hist[s].ev IN
        /\ Cardinality(Transmitted(ev)) <= 1
        /\ \A m \in Transmitted(ev) : \A n \in DOMAIN ev :
               n > m => ev[n].t = ev[m].t

\* C20 as stated: list_messages gives the stored messages in ascending
\* order of their numbers, all of them.
C20_ListedInNumericOrder ==
    call.fn = "list_messages" =>
        /\ Len(call.out) = Cardinality(DOMAIN files)
        /\ \A m, n \in DOMAIN call.out : m < n => call.out[m] < call.out[n]


=============================================================================
